---- MODULE Spec2Model ----
(***************************************************************************)
(* Run execution of the thought_tree backend: the run-creation, cancel and *)
(* update endpoints of api/chat_routes.py and the background executor      *)
(* execute_run_async of misc/utils.py, as one asyncio event loop.          *)
(*                                                                         *)
(* A task is a coroutine that runs from one suspension point (await) to    *)
(* the next without interleaving; every action below is one such stretch.  *)
(* Task.cancel() marks the task; the CancelledError is thrown into the     *)
(* coroutine at the await it is suspended on, the next time it would run.  *)
(***************************************************************************)
EXTENDS Integers, Sequences, FiniteSets, TLC

\* Longest agent stream explored: after MaxEvents events the stream ends or raises.
MaxEvents == 3

\* Longest messages list of an input explored.
MaxMessages == 2

RunIds == {"r1", "r2"}
\* The run of the specifications that follow one run.
FirstRun == {"r1"}
ThreadIds == {"t1"}
ThreadOf(run_id) == "t1"

Terminal == {"completed", "interrupted", "cancelled", "failed"}

\* The authenticated users; every thread of the model belongs to the first.
UserIds == {"u1", "u2"}
ThreadOwner(thread_id) == "u1"
NoUser == ""
\* The HTTP errors of create_run and create_and_stream_run.
Rejections == {"thread_not_found", "configurable_and_context",
               "assistant_not_found", "graph_not_found"}

\* The values of the action parameter of cancel_run_endpoint.
Actions == {"cancel", "interrupt"}

\* Settings.MAX_UPLOAD_FILES.
MAX_UPLOAD_FILES == 3
\* The longest files list of one upload_files request.
MaxBatch == 2
\* The upload_files requests that can be in progress together, and the names
\* their files can have.
Uploads == {"u1", "u2"}
Filenames == {"a.txt", "b.txt", "c.txt", "d.txt"}
\* An upload_files request that is not in progress.
Idle == [at |-> "idle", files |-> <<>>, existing_file |-> FALSE]

\* The longest stream_mode list of a request.
MaxModes == 2
\* misc/utils.py: DEFAULT_STREAM_MODES = ["values"]
DEFAULT_STREAM_MODES == <<"values">>
\* The mode names a request can hold.
ModeNames == {"values", "updates", "messages", "messages-tuple", "custom"}
\* The list objects: the module's default, the caller's list, the list the
\* comprehension builds and the copy.
ModeRefs == {"DEFAULT_STREAM_MODES", "request", "normalized", "copy"}
\* The three shapes of stream_mode; a list is held by reference.
ModeNone == [kind |-> "None", v |-> "", items |-> <<>>]
ModeStr(v) == [kind |-> "str", v |-> v, items |-> <<>>]
ModeList(ref) == [kind |-> "list", v |-> ref, items |-> <<>>]
\* request.stream_mode as sent: a list by its contents.
ModeItems(items) == [kind |-> "list", v |-> "request", items |-> items]

\* PasswordResetStore(expiry_minutes=10).
expiry_minutes == 10
\* The clock is not read after MaxTime minutes.
MaxTime == 20
\* The minutes that pass between two requests.
Delays == {5, 15}
\* The users, and an address no user has.
Users == {"a@x", "b@x"}
Emails == Users \cup {"nobody@x"}
\* The codes _generate_code can return, and what a request can submit.
Codes == {"ABC234", "XYZ789"}
Submitted == Codes \cup {"abc234"}
Passwords == {"pw1", "pw2"}
FirstPassword == "pw1"
\* The reset_password requests that can be in progress together.
Resets == {"q1", "q2"}
NoReset == [at |-> "idle", email |-> "", new_password |-> ""]
\* self._code_to_email.get(code) is None.
NoEmail == ""
\* self._store.get(email) is None.
NoEntry == [code |-> "", expires_at |-> 0, verified |-> FALSE]
\* str.upper() on the codes above.
Upper(code) == IF code = "abc234" THEN "ABC234" ELSE code
\* utils/user_utils.py: a hash is not the password, and verifies only it.
get_password_hash(p) == <<"hash", p>>
verify_password(plain, hashed) == get_password_hash(plain) = hashed

-----------------------------------------------------------------------------
(* Values: event payloads, raw events, stored outputs, exceptions.          *)

\* Python values an event can carry. kind is the Python type, keys the keys
\* of a mapping, ser whether the generic serializer accepts the value.
NoneVal == [kind |-> "None", keys |-> {}, ser |-> TRUE]
EmptyDict == [kind |-> "dict", keys |-> {}, ser |-> TRUE]
DictA == [kind |-> "dict", keys |-> {"a"}, ser |-> TRUE]
DictB == [kind |-> "dict", keys |-> {"b"}, ser |-> TRUE]
DictI == [kind |-> "dict", keys |-> {"__interrupt__"}, ser |-> TRUE]
DictBI == [kind |-> "dict", keys |-> {"b", "__interrupt__"}, ser |-> TRUE]
DictU == [kind |-> "dict", keys |-> {"u"}, ser |-> FALSE]
MsgM == [kind |-> "tuple", keys |-> {}, ser |-> TRUE]

\* A raw event of graph.astream: a (mode, data) tuple, a one-element tuple,
\* or a bare value (shape "bare", the value in data).
Tuple2(mode, data) == [shape |-> "tuple2", mode |-> mode, data |-> data]
Tuple1(item) == [shape |-> "tuple1", mode |-> item, data |-> NoneVal]
Bare(data) == [shape |-> "bare", mode |-> "", data |-> data]
NoEvent == [shape |-> "none", mode |-> "", data |-> NoneVal]

\* The events the agent may produce in the lifecycle specification.
CoreEvents ==
    { Tuple2("values", DictA), Tuple2("values", DictB),
      Tuple2("updates", DictI), Tuple2("messages", MsgM) }

\* The events the agent may produce in the stream specification: every
\* stream mode, mappings with and without the interrupt marker, a mapping the
\* serializer rejects, an empty mapping, a bare value and a short tuple.
AllEvents ==
    CoreEvents \cup
    { Tuple2("values", EmptyDict), Tuple2("values", DictBI),
      Tuple2("values", DictU), Tuple2("updates", DictA),
      Tuple2("custom", DictB), Tuple2("messages", DictI),
      Bare(DictA), Tuple1("values") }

\* Exceptions. str(e) is the message.
NoExc == [type |-> "none", msg |-> ""]
CancelledError == [type |-> "CancelledError", msg |-> ""]
AgentErr1 == [type |-> "RuntimeError", msg |-> "agent failed"]
AgentErr2 == [type |-> "ValueError", msg |-> "bad node"]
DbError == [type |-> "DBAPIError", msg |-> "connection lost"]
AttributeErr == [type |-> "AttributeError", msg |-> "'dict' object has no attribute 'execute'"]
AgentErrors == {AgentErr1, AgentErr2}
StoreErr == [type |-> "OperationalError", msg |-> "event insert failed"]
Str(e) == e.msg
NoError == "<None>"

\* general_serializer.serialize: a JSON-safe structure of the value, or raises.
SerializerRaises(output) == ~output.ser
Serialize(output) == [form |-> "json", of |-> output]
NoOutput == [form |-> "null", of |-> NoneVal]

\* f"{run_id}_event_{event_counter}"
EventId(run_id, event_counter) == <<run_id, "_event_", event_counter>>
NoId == <<"", "", 0>>

-----------------------------------------------------------------------------
(* The input of a run as inject_rag_context sees it: a dict whose           *)
(* "messages" is a list of messages. A text is a sequence of pieces, the    *)
(* empty text being falsy.                                                  *)

NoText == <<>>
Query == <<"q">>
Context == <<"ctx">>
Texts == {NoText, Query}

\* content[0] of a content list: a dict (with or without the key "text"), a
\* string, something else, or absent when the list is empty.
NoItem == [kind |-> "absent", has_text |-> FALSE, text |-> NoText]
ItemDict(text) == [kind |-> "dict", has_text |-> TRUE, text |-> text]
ItemDictNoText == [kind |-> "dict", has_text |-> FALSE, text |-> NoText]
ItemStr(text) == [kind |-> "str", has_text |-> FALSE, text |-> text]
ItemOther == [kind |-> "other", has_text |-> FALSE, text |-> NoText]

\* msg["content"]: a string, a list (of which content[0] matters), or
\* anything else.
ContentStr(text) == [kind |-> "str", text |-> text, first |-> NoItem]
ContentList(first) == [kind |-> "list", text |-> NoText, first |-> first]
ContentOther == [kind |-> "other", text |-> NoText, first |-> NoItem]

\* A message: a dict with "type" and "content", or an object that is no
\* dict (msg.get raises AttributeError).
Msg(type, content) == [type |-> type, content |-> content]
NotADict == Msg("object", ContentOther)

Messages ==
    { Msg("human", ContentStr(Query)), Msg("human", ContentStr(NoText)),
      Msg("human", ContentList(ItemDict(Query))), Msg("human", ContentList(ItemDictNoText)),
      Msg("human", ContentList(ItemStr(Query))), Msg("human", ContentList(NoItem)),
      Msg("human", ContentOther), Msg("ai", ContentStr(Query)), NotADict }

\* The references of the heap and what an unused reference holds.
Refs == {"D0", "L0", "D1", "L1"}
Free == [kind |-> "free"]
Dict(list) == [kind |-> "dict", messages |-> list]
List(items) == [kind |-> "list", items |-> items]

\* The heap that holds the caller's input and nothing else.
HeapOf(messages) ==
    [ref \in Refs |->
        IF ref = "D0" THEN Dict("L0")
        ELSE IF ref = "L0" THEN List(messages)
        ELSE Free]

\* input_data.get("messages", []) of the dict a reference holds.
MessagesOf(h, ref) == h[h[ref].messages].items

-----------------------------------------------------------------------------
(* State.                                                                   *)

VARIABLES
    run_db,         \* Run table: run_id -> row (status "none": no record)
    thread_status,  \* Thread table: thread_id -> status column
    active_runs,    \* misc/active_runs.py: the run ids that map to a task
    pc,             \* the await each run's task is suspended on
    must_cancel,    \* Task.cancel() was called and not yet delivered
    session,        \* the value bound to execute_run_async's session parameter
    event_counter,  \* locals of execute_run_async
    final_output,
    has_interrupt,
    raw_event,
    exc,            \* the exception in flight; at pc "done" the task's result
    stream,         \* history: the events pulled from graph.astream so far
    calls,          \* history: the calls the executor made, in order
    requests,       \* history: run_id -> the actions cancel_run_endpoint was called with
    waiting,        \* run_id -> a cancel request with wait=1 is awaiting the task
    deleting,       \* thread_id -> a delete_chat request is awaiting the cancelled tasks
    heap,           \* the objects input_data refers to: reference -> value
    input_data,     \* run_id -> the reference execute_run_async's input_data holds
    rag_path,       \* run_id -> where inject_rag_context is, or the path it returned by
    caller_input,   \* history: the value of the caller's input when the run was created
    file_upload,    \* file_upload table: the filenames of the thread's committed records
    upload,         \* upload_files request -> where it is and the files it has left
    password_reset_store,  \* PasswordResetStore._store: email -> ResetCodeEntry
    code_to_email,  \* PasswordResetStore._code_to_email: code -> email
    issued,         \* history: email -> the codes create_reset_code returned for it
    now,            \* datetime.now(timezone.utc), in minutes
    password,       \* User table: email -> the password column (a hash)
    reset,          \* reset_password request -> where it is, whose password, which one
    mode_heap,      \* the list objects of the stream modes: reference -> contents
    stream_mode,    \* execute_run_async's stream_mode: None, a string or a list reference
    final_stream_modes,  \* the reference handed to graph.astream, "" before
    mode_pc,        \* where the executor is in preparing the modes
    requested,      \* history: request.stream_mode as the caller sent it
    run_user,       \* Run table: run_id -> the user_id column
    rejections      \* history: the reasons run creations were rejected for

\* The state of the requests that are not part of a run's execution.
reqs == <<requests, waiting, deleting>>
\* The state of inject_rag_context.
ragv == <<heap, input_data, rag_path, caller_input>>
\* The state of the file endpoints.
filev == <<file_upload, upload>>
\* The state outside the run subsystem.
\* The state of the password reset endpoints.
pwv == <<password_reset_store, code_to_email, issued, now, password, reset>>
\* The state of the stream-mode preparation.
modev == <<mode_heap, stream_mode, final_stream_modes, mode_pc, requested>>
\* The callers of the run-creation endpoints.
authv == <<run_user, rejections>>
svc == <<filev, pwv, modev, authv>>
ext == <<reqs, ragv, svc>>
\* What a request, and what inject_rag_context, leaves alone of it.
notReqs == <<ragv, svc>>
notRag == <<reqs, svc>>

vars == <<run_db, thread_status, active_runs, pc, must_cancel, session,
          event_counter, final_output, has_interrupt, raw_event, exc,
          stream, calls, ext>>

db == <<run_db, thread_status>>
locals == <<event_counter, final_output, has_interrupt, raw_event>>

NoRow == [status |-> "none", output |-> NoOutput, error_message |-> NoError]

\* One entry of the call history.
Entry(op, s, id, v, e) == [op |-> op, s |-> s, id |-> id, v |-> v, e |-> e]
Log(run_id, entry) == calls' = [calls EXCEPT ![run_id] = Append(@, entry)]

\* The state after start-up, but for the input the caller will send.
InitRuns ==
    /\ run_db = [r \in RunIds |-> NoRow]
    /\ thread_status = [t \in ThreadIds |-> "idle"]
    /\ active_runs = {}
    /\ pc = [r \in RunIds |-> "none"]
    /\ must_cancel = [r \in RunIds |-> FALSE]
    /\ session = [r \in RunIds |-> "None"]
    /\ event_counter = [r \in RunIds |-> 0]
    /\ final_output = [r \in RunIds |-> NoneVal]
    /\ has_interrupt = [r \in RunIds |-> FALSE]
    /\ raw_event = [r \in RunIds |-> NoEvent]
    /\ exc = [r \in RunIds |-> NoExc]
    /\ stream = [r \in RunIds |-> <<>>]
    /\ calls = [r \in RunIds |-> <<>>]
    /\ requests = [r \in RunIds |-> {}]
    /\ waiting = [r \in RunIds |-> FALSE]
    /\ deleting = [t \in ThreadIds |-> FALSE]

\* The caller's input is the dict "D0" whose messages list is "L0".
InitInput(messages) ==
    /\ heap = HeapOf(messages)
    /\ input_data = [r \in RunIds |-> "D0"]
    /\ rag_path = [r \in RunIds |-> "lookup"]
    /\ caller_input = messages

\* An empty file_upload table and no upload request in progress.
InitFiles ==
    /\ file_upload = {}
    /\ upload = [u \in Uploads |-> Idle]

\* An empty PasswordResetStore; every user has the password FirstPassword.
InitReset ==
    /\ password_reset_store = [e \in Emails |-> NoEntry]
    /\ code_to_email = [c \in Codes |-> NoEmail]
    /\ issued = [e \in Emails |-> {}]
    /\ now = 0
    /\ password = [e \in Users |-> get_password_hash(FirstPassword)]
    /\ reset = [q \in Resets |-> NoReset]

\* The objects before a request: the module's DEFAULT_STREAM_MODES, the
\* caller's list, and no list made by the executor.
NoModes == <<>>
InitModes ==
    /\ mode_heap = [ref \in ModeRefs |-> IF ref = "DEFAULT_STREAM_MODES"
                                        THEN DEFAULT_STREAM_MODES ELSE NoModes]
    /\ stream_mode = ModeNone
    /\ final_stream_modes = ""
    /\ mode_pc = "request"
    /\ requested = ModeNone

\* No run record, no rejected request.
InitCallers ==
    /\ run_user = [r \in RunIds |-> NoUser]
    /\ rejections = {}

InitServices == InitFiles /\ InitReset /\ InitModes /\ InitCallers

\* request.input or {}: an input without messages.
Init == InitRuns /\ InitInput(<<>>) /\ InitServices

-----------------------------------------------------------------------------
(* Pure parts of execute_run_async and update_run_status.                   *)

\* Mutant of NextEventCounter: the counter advances on snapshot events only.
NextEventCounterValuesOnly(counter, event) ==
    IF event.mode = "values" THEN counter + 1 ELSE counter

\* event_counter += 1
NextEventCounter(counter, event) == counter + 1

\* isinstance(raw_event, tuple) and len(raw_event)
IsTuple(event) == event.shape \in {"tuple1", "tuple2"}
TupleLen(event) == IF event.shape = "tuple2" THEN 2 ELSE 1

\* event_data: raw_event[1] of a tuple of two or more, the event itself when
\* it is no tuple, None for a shorter tuple.
EventData(event) ==
    IF IsTuple(event) /\ TupleLen(event) >= 2
    THEN event.data
    ELSE IF ~IsTuple(event)
         THEN event.data
         ELSE NoneVal

\* Mutant of DetectInterrupt: the flag follows the last event only.
DetectInterruptNotSticky(event, flag) ==
    EventData(event).kind = "dict" /\ "__interrupt__" \in EventData(event).keys

\* if isinstance(event_data, dict) and "__interrupt__" in event_data: has_interrupt = True
DetectInterrupt(event, flag) ==
    IF EventData(event).kind = "dict" /\ "__interrupt__" \in EventData(event).keys
    THEN TRUE
    ELSE flag

\* Mutant of TrackFinalOutput: the mode tag of a tuple is not looked at.
TrackFinalOutputAnyMode(event, output) ==
    IF IsTuple(event)
    THEN IF TupleLen(event) >= 2 THEN event.data ELSE output
    ELSE event.data

\* Track final output: a tuple updates it only when tagged "values"; a
\* non-tuple event is taken as values mode.
TrackFinalOutput(event, output) ==
    IF IsTuple(event)
    THEN IF TupleLen(event) >= 2 /\ event.mode = "values"
         THEN event.data
         ELSE output
    ELSE event.data

\* Mutant of TrackLocals: the output is frozen once the interrupt marker was seen.
TrackLocalsFrozen(event, flag, output) ==
    [has_interrupt |-> DetectInterrupt(event, flag),
     final_output |-> IF flag THEN output ELSE TrackFinalOutput(event, output)]

\* The two locals after the loop body has looked at an event.
TrackLocals(event, flag, output) ==
    [has_interrupt |-> DetectInterrupt(event, flag),
     final_output |-> TrackFinalOutput(event, output)]

\* final_output or {}
Falsy(value) == value.kind = "None" \/ (value.kind = "dict" /\ value.keys = {})
OrEmpty(output) == IF Falsy(output) THEN EmptyDict ELSE output

\* The status the executor writes when the stream is exhausted.
ExhaustedStatus(flag) == IF flag THEN "interrupted" ELSE "completed"
\* The thread status written after it.
ExhaustedThreadStatus(flag) == IF flag THEN "interrupted" ELSE "idle"

\* Mutants of the handlers' arguments: the partial output is kept; the
\* exception's type name is stored instead of its text.
CancelHandlerOutputPartial(output) == OrEmpty(output)
FailHandlerErrorType(e) == e.type

\* The output and error the two handlers pass to update_run_status.
CancelHandlerOutput(output) == EmptyDict
FailHandlerOutput(output) == EmptyDict
FailHandlerError(e) == Str(e)

\* values["output"] of update_run_status: the serialized output, or the
\* diagnostic placeholder when the serializer raises.
Placeholder(output) ==
    [form |-> "placeholder", of |-> [kind |-> output.kind, keys |-> {}, ser |-> TRUE]]
\* Mutant of StoredOutput: the serializer's result is stored unguarded.
StoredOutputUnguarded(output) == Serialize(output)

StoredOutput(output) ==
    IF SerializerRaises(output) THEN Placeholder(output) ELSE Serialize(output)

\* update_run_status: the row after UPDATE ... SET status[, output][, error_message].
UpdateRunStatus(row, status, output, error) ==
    [status |-> status,
     output |-> IF output # NoneVal THEN StoredOutput(output) ELSE row.output,
     error_message |-> IF error # NoError THEN error ELSE row.error_message]

\* An UPDATE of a run that has no record changes nothing.
WriteRun(run_id, status, output, error) ==
    run_db' = [run_db EXCEPT ![run_id] =
                 IF @.status = "none" THEN @
                 ELSE UpdateRunStatus(@, status, output, error)]

\* The history entry of an update_run_status call that committed: the row as
\* it is persisted by the call.
Committed(run_id) ==
    [op |-> "update_run_status", s |-> run_db'[run_id].status, id |-> NoId,
     v |-> run_db'[run_id].output, e |-> run_db'[run_id].error_message]

\* set_thread_status
SetThreadStatus(thread_id, status) ==
    thread_status' = [thread_status EXCEPT ![thread_id] =
                        IF @ = "deleted" THEN @ ELSE status]

-----------------------------------------------------------------------------
(* HTTP endpoints of api/chat_routes.py.                                    *)

\* The status of the record each run-creation endpoint inserts.
InitialStatus(endpoint) ==
    IF endpoint = "create_run" THEN "pending" ELSE "streaming"

\* The ninth positional argument of the execute_run_async(...) call of both
\* endpoints is request.checkpoint; the ninth parameter is session.
SessionArgument(checkpoint) == checkpoint

\* Mutant of TaskCreated: the task ran its first step before the endpoint
\* registered it.
TaskCreatedStepped == "rag"

\* asyncio.create_task(...) followed by active_runs[run_id] = task with no
\* await between them: the task is scheduled and has not run.
TaskCreated == "created"

\* create_run / create_and_stream_run called by a user, on success: thread
\* busy, the record inserted with the caller's user_id, the task created and
\* registered. The task has not run yet. Neither set_thread_status nor
\* update_thread_metadata looks at the thread's user_id.
CreateRunAs(run_id, user) ==
    /\ pc[run_id] = "none"
    /\ thread_status[ThreadOf(run_id)] # "deleted"
    /\ \E endpoint \in {"create_run", "create_and_stream_run"},
          checkpoint \in {"None", "dict"} :
          /\ SetThreadStatus(ThreadOf(run_id), "busy")
          /\ run_db' = [run_db EXCEPT ![run_id] =
                           [NoRow EXCEPT !.status = InitialStatus(endpoint)]]
          /\ session' = [session EXCEPT ![run_id] = SessionArgument(checkpoint)]
    /\ pc' = [pc EXCEPT ![run_id] = TaskCreated]
    /\ active_runs' = active_runs \cup {run_id}
    /\ run_user' = [run_user EXCEPT ![run_id] = user]
    /\ UNCHANGED <<must_cancel, locals, exc, stream, calls>>
    /\ UNCHANGED <<reqs, ragv, filev, pwv, modev, rejections>>

\* The request of the thread's owner.
CreateRun(run_id) == CreateRunAs(run_id, ThreadOwner(ThreadOf(run_id)))

\* The request of another user on the same thread.
CreateRunByOther(run_id) ==
    \E user \in UserIds \ {ThreadOwner(ThreadOf(run_id))} : CreateRunAs(run_id, user)

\* create_run / create_and_stream_run ending in an HTTPException: the thread
\* was set busy on entry; update_thread_metadata raises 404 for a thread
\* that does not exist, the later checks raise 400 or 404. No record is
\* inserted and no task created.
CreateRunRejected(run_id) ==
    /\ pc[run_id] = "none"
    /\ \E reason \in Rejections :
           /\ reason = "thread_not_found" <=> thread_status[ThreadOf(run_id)] = "deleted"
           /\ rejections' = rejections \cup {reason}
    /\ SetThreadStatus(ThreadOf(run_id), "busy")
    /\ UNCHANGED <<run_db, active_runs, pc, must_cancel, session, locals, exc, stream, calls>>
    /\ UNCHANGED <<reqs, ragv, filev, pwv, modev, run_user>>

\* streaming_service.cancel_run: cancels the background task if it is still
\* running. streaming_service.interrupt_run leaves the task alone.
CancelRun(run_id) ==
    must_cancel' = [must_cancel EXCEPT ![run_id] =
                      @ \/ (run_id \in active_runs /\ pc[run_id] # "done")]

\* The two branches shared by cancel_run_endpoint and update_run: signal the
\* streaming service, then UPDATE the status column, whatever it holds.
RequestStatus(run_id, status) ==
    /\ run_db[run_id].status # "none"
    /\ IF status = "cancelled"
       THEN CancelRun(run_id)
       ELSE UNCHANGED must_cancel
    /\ run_db' = [run_db EXCEPT ![run_id].status = status]
    /\ UNCHANGED <<thread_status, active_runs, pc, session, locals, exc,
                   stream, calls>>

\* The status cancel_run_endpoint persists for an action.
ActionStatus(action) == IF action = "interrupt" THEN "interrupted" ELSE "cancelled"

\* if wait: task = active_runs.get(run_id); if task: await task
AwaitsTask(run_id, wait) == wait = 1 /\ run_id \in active_runs

\* POST .../cancel?action=cancel|interrupt&wait=0|1, up to the await of the
\* task (wait=1 and a task registered) or to the response.
CancelRunEndpoint(run_id) ==
    \E action \in Actions, wait \in {0, 1} :
        /\ wait = 1 => ~waiting[run_id]
        /\ RequestStatus(run_id, ActionStatus(action))
        /\ requests' = [requests EXCEPT ![run_id] = @ \cup {action}]
        /\ waiting' = [waiting EXCEPT ![run_id] = @ \/ AwaitsTask(run_id, wait)]
        /\ UNCHANGED <<deleting, notReqs>>

\* The awaited task is done: whatever it raised is passed over and the
\* endpoint reloads the run and responds.
CancelReturn(run_id) ==
    /\ waiting[run_id]
    /\ pc[run_id] = "done"
    /\ waiting' = [waiting EXCEPT ![run_id] = FALSE]
    /\ UNCHANGED <<run_db, thread_status, active_runs, pc, must_cancel, session,
                   locals, exc, stream, calls, requests, deleting, notReqs>>

\* The runs delete_chat cancels: status IN ("pending", "running").
SelectedForCancel(thread_id) ==
    { r \in RunIds : ThreadOf(r) = thread_id /\ run_db[r].status \in {"pending", "running"} }

\* task = active_runs.pop(run_id, None); if task and not task.done(): the
\* tasks delete_chat cancels and awaits.
TasksToSettle(thread_id) ==
    { r \in SelectedForCancel(thread_id) : r \in active_runs /\ pc[r] # "done" }

\* session.delete(thread); commit: the thread is gone and, by CASCADE, so
\* are its run records.
DeleteThread(thread_id) ==
    /\ thread_status' = [thread_status EXCEPT ![thread_id] = "deleted"]
    /\ run_db' = [r \in RunIds |-> IF ThreadOf(r) = thread_id THEN NoRow ELSE run_db[r]]

\* DELETE /threads/{thread_id}, up to the await of the cancelled tasks or,
\* when there is none to await, to the deletion.
DeleteChat(thread_id) ==
    /\ thread_status[thread_id] # "deleted"
    /\ ~deleting[thread_id]
    /\ active_runs' = active_runs \ SelectedForCancel(thread_id)
    /\ must_cancel' = [r \in RunIds |->
                         must_cancel[r] \/ r \in TasksToSettle(thread_id)]
    /\ IF TasksToSettle(thread_id) = {}
       THEN DeleteThread(thread_id) /\ UNCHANGED deleting
       ELSE /\ deleting' = [deleting EXCEPT ![thread_id] = TRUE]
            /\ UNCHANGED db
    /\ UNCHANGED <<pc, session, locals, exc, stream, calls, requests, waiting, notReqs>>

\* The tasks delete_chat took out of the registry and awaits.
Awaited(thread_id) ==
    { r \in RunIds : ThreadOf(r) = thread_id /\ r \notin active_runs /\ pc[r] # "none" }

\* The awaited tasks are done: the thread is deleted.
DeleteSettled(thread_id) ==
    /\ deleting[thread_id]
    /\ \A r \in Awaited(thread_id) : pc[r] = "done"
    /\ deleting' = [deleting EXCEPT ![thread_id] = FALSE]
    /\ DeleteThread(thread_id)
    /\ UNCHANGED <<active_runs, pc, must_cancel, session, locals, exc, stream,
                   calls, requests, waiting, notReqs>>

\* PATCH .../runs/{run_id} with status cancelled or interrupted
UpdateRun(run_id) ==
    /\ \E status \in {"cancelled", "interrupted"} : RequestStatus(run_id, status)
    /\ UNCHANGED ext

-----------------------------------------------------------------------------
(* execute_run_async, one action per stretch between two awaits.            *)
(* pc names the await the task is suspended on:                             *)
(*   created     the task exists and has not run                            *)
(*   rag         inside inject_rag_context (before the try)                 *)
(*   set_running update_run_status(run_id, "running")                       *)
(*   stream      get_graph, then the next item of graph.astream             *)
(*   broker      put_to_broker            store   store_event_from_raw      *)
(*   fin_status  update_run_status(completed | interrupted)                 *)
(*   fin_thread  set_thread_status after it                                 *)
(*   c_status, c_thread, c_signal   the CancelledError handler              *)
(*   f_status, f_thread, f_signal   the Exception handler                   *)
(*   cleanup     cleanup_run in the finally block                           *)
(*   done        the task has finished; exc is what it raised               *)

BeforeTry == {"created", "rag"}
InTry == {"set_running", "stream", "broker", "store", "fin_status", "fin_thread"}
InHandler == {"c_status", "c_thread", "c_signal", "f_status", "f_thread", "f_signal"}

Goto(run_id, label) == pc' = [pc EXCEPT ![run_id] = label]
Resumes(run_id, label) == pc[run_id] = label /\ ~must_cancel[run_id]

\* An exception raised at an await: inside the try it enters the Exception
\* handler, inside a handler it leaves through the finally block.
Raise(run_id, e) ==
    /\ exc' = [exc EXCEPT ![run_id] = e]
    /\ Goto(run_id, IF pc[run_id] \in InTry THEN "f_status" ELSE "cleanup")
    /\ Log(run_id, Entry("raise", pc[run_id], NoId, NoneVal, Str(e)))

\* The first step of the task. With session None a session is made and the
\* task suspends in inject_rag_context. With any other object as session,
\* session.scalar and session.execute raise AttributeError without
\* suspending: inject_rag_context swallows it, update_run_status("running")
\* raises it into the Exception handler, whose update_run_status raises it
\* again, and the task reaches the finally block.
Start(run_id) ==
    /\ Resumes(run_id, "created")
    /\ IF session[run_id] = "None"
       THEN /\ session' = [session EXCEPT ![run_id] = "AsyncSession"]
            /\ Goto(run_id, "rag")
            /\ UNCHANGED <<exc, calls>>
       ELSE /\ exc' = [exc EXCEPT ![run_id] = AttributeErr]
            /\ Goto(run_id, "cleanup")
            /\ calls' = [calls EXCEPT ![run_id] = @ \o
                   << Entry("raise", "set_running", NoId, NoneVal, Str(AttributeErr)),
                      Entry("raise", "f_status", NoId, NoneVal, Str(AttributeErr)) >>]
            /\ UNCHANGED session
    /\ UNCHANGED <<db, active_runs, must_cancel, locals, stream>>
    /\ UNCHANGED ext

\* for msg in reversed(messages): if msg.get("type") == "human": ... break
\* The index of the message the loop stops at, 0 when it ends without one
\* and -1 when msg.get raises on a message that is no dict.
RECURSIVE LastHuman(_, _)
LastHuman(msgs, i) ==
    IF i = 0 THEN 0
    ELSE IF msgs[i].type = "object" THEN -1
    ELSE IF msgs[i].type = "human" THEN i
    ELSE LastHuman(msgs, i - 1)

\* user_query of the message the loop stops at (None and "" are both falsy).
UserQuery(msg) ==
    IF msg.content.kind = "str" THEN msg.content.text
    ELSE IF msg.content.kind = "list" /\ msg.content.first.kind \in {"dict", "str"}
         THEN msg.content.first.text
    ELSE NoText

\* f"{rag_context}\n\nUser Query: {content}"
Prepend(context, text) == context \o <<"User Query:">> \o text

\* The rewriting of the last human message of the copy.
Rewrite(msg, context) ==
    IF msg.content.kind = "str"
    THEN Msg(msg.type, ContentStr(Prepend(context, msg.content.text)))
    ELSE IF msg.content.kind = "list" /\ msg.content.first.kind = "dict"
            /\ msg.content.first.has_text
         THEN Msg(msg.type, ContentList(ItemDict(Prepend(context, msg.content.first.text))))
    ELSE IF msg.content.kind = "list" /\ msg.content.first.kind = "str"
         THEN Msg(msg.type, ContentList(ItemStr(Prepend(context, msg.content.first.text))))
    ELSE msg

\* Mutant of DeepCopy: copy.copy, the new dict shares the messages list.
ShallowCopy(h, ref) == [h EXCEPT !["D1"] = Dict(h[ref].messages)]

\* modified_input = copy.deepcopy(input_data): a new dict "D1" with a new
\* messages list "L1".
DeepCopy(h, ref) ==
    [h EXCEPT !["D1"] = Dict("L1"), !["L1"] = h[h[ref].messages]]

\* The loop over reversed(modified_input.get("messages", [])): the message
\* at index i of the list of the dict at ref is rewritten in place.
InjectInto(h, ref, i, context) ==
    [h EXCEPT ![h[ref].messages].items[i] = Rewrite(@, context)]

\* The path inject_rag_context takes up to its second await, for what
\* has_files_in_thread does ("no", "yes", "raise").
LookupPath(has_files, msgs) ==
    IF has_files = "raise" THEN "lookup_raised"
    ELSE IF has_files = "no" THEN "no_files"
    ELSE IF Len(msgs) = 0 THEN "no_messages"
    ELSE IF LastHuman(msgs, Len(msgs)) = -1 THEN "extract_raised"
    ELSE IF LastHuman(msgs, Len(msgs)) = 0 THEN "no_query"
    ELSE IF UserQuery(msgs[LastHuman(msgs, Len(msgs))]) = NoText THEN "no_query"
    ELSE "search"

\* Mutant of AfterRagFailure: the exception leaves inject_rag_context and,
\* raised before the try statement, ends the task.
AfterRagFailureRaised(label) == "done"

\* except Exception: return input_data - the executor goes on after the call.
AfterRagFailure(label) == label

\* Where the executor is after inject_rag_context took a path.
AfterRag(path) ==
    IF path = "search" THEN "rag"
    ELSE IF path \in {"lookup_raised", "extract_raised", "search_raised"}
         THEN AfterRagFailure("set_running")
    ELSE "set_running"

\* await rag_service.has_files_in_thread(...) ends; the query is extracted;
\* inject_rag_context returns its input or awaits get_context_for_query.
RagLookup(run_id) ==
    /\ Resumes(run_id, "rag")
    /\ rag_path[run_id] = "lookup"
    /\ \E has_files \in {"no", "yes", "raise"} :
         LET path == LookupPath(has_files, MessagesOf(heap, input_data[run_id]))
         IN /\ rag_path' = [rag_path EXCEPT ![run_id] = path]
            /\ Goto(run_id, AfterRag(path))
    /\ UNCHANGED <<db, active_runs, must_cancel, session, locals, exc, stream, calls>>
    /\ UNCHANGED <<notRag, heap, input_data, caller_input>>

\* await rag_service.get_context_for_query(...) ends: it raises, returns ""
\* or returns a context, which is injected into a copy of the input.
RagSearch(run_id) ==
    /\ Resumes(run_id, "rag")
    /\ rag_path[run_id] = "search"
    /\ \E found \in {"raise", "empty", "context"} :
         LET path == IF found = "raise" THEN "search_raised"
                     ELSE IF found = "empty" THEN "empty_context" ELSE "injected"
             msgs == MessagesOf(heap, input_data[run_id])
         IN /\ rag_path' = [rag_path EXCEPT ![run_id] = path]
            /\ Goto(run_id, AfterRag(path))
            /\ IF found = "context"
               THEN /\ heap' = InjectInto(DeepCopy(heap, input_data[run_id]), "D1",
                                          LastHuman(msgs, Len(msgs)), Context)
                    /\ input_data' = [input_data EXCEPT ![run_id] = "D1"]
               ELSE UNCHANGED <<heap, input_data>>
    /\ UNCHANGED <<db, active_runs, must_cancel, session, locals, exc, stream, calls>>
    /\ UNCHANGED <<notRag, caller_input>>

\* inject_rag_context returns (the input, augmented or not; its own
\* exceptions are swallowed) and the task enters the try block.
RagDone(run_id) ==
    /\ Resumes(run_id, "rag")
    /\ Goto(run_id, "set_running")
    /\ UNCHANGED <<db, active_runs, must_cancel, session, locals, exc, stream, calls>>
    /\ UNCHANGED ext

\* await update_run_status(run_id, "running", session=session)
SetRunning(run_id, outcomes) ==
    /\ Resumes(run_id, "set_running")
    /\ \E o \in outcomes :
         IF o = "ok"
         THEN /\ WriteRun(run_id, "running", NoneVal, NoError)
              /\ Goto(run_id, "stream")
              /\ Log(run_id, Committed(run_id))
              /\ UNCHANGED exc
         ELSE /\ Raise(run_id, DbError)
              /\ UNCHANGED run_db
    /\ UNCHANGED <<thread_status, active_runs, must_cancel, session, locals, stream>>
    /\ UNCHANGED ext

\* async for raw_event in graph.astream(...): the next event arrives.
Pull(run_id, events) ==
    /\ Resumes(run_id, "stream")
    /\ Len(stream[run_id]) < MaxEvents
    /\ \E ev \in events :
         /\ raw_event' = [raw_event EXCEPT ![run_id] = ev]
         /\ event_counter' = [event_counter EXCEPT ![run_id] = NextEventCounter(@, ev)]
         /\ stream' = [stream EXCEPT ![run_id] = Append(@, ev)]
    /\ Goto(run_id, "broker")
    /\ UNCHANGED <<db, active_runs, must_cancel, session, final_output,
                   has_interrupt, exc, calls>>
    /\ UNCHANGED ext

\* The await that follows put_to_broker in the loop body.
AfterBroker == "store"

\* await streaming_service.put_to_broker(run_id, event_id, raw_event)
PutToBroker(run_id) ==
    /\ Resumes(run_id, "broker")
    /\ Log(run_id, Entry("put_to_broker", "", EventId(run_id, event_counter[run_id]),
                         raw_event[run_id], NoError))
    /\ Goto(run_id, AfterBroker)
    /\ UNCHANGED <<db, active_runs, must_cancel, session, locals, exc, stream>>
    /\ UNCHANGED ext

\* await streaming_service.store_event_from_raw(...), then the interrupt
\* check and the output tracking of the loop body.
StoreEvent(run_id) ==
    /\ Resumes(run_id, "store")
    /\ Log(run_id, Entry("store_event_from_raw", "", EventId(run_id, event_counter[run_id]),
                         raw_event[run_id], NoError))
    /\ LET after == TrackLocals(raw_event[run_id], has_interrupt[run_id], final_output[run_id])
       IN /\ has_interrupt' = [has_interrupt EXCEPT ![run_id] = after.has_interrupt]
          /\ final_output' = [final_output EXCEPT ![run_id] = after.final_output]
    /\ Goto(run_id, "stream")
    /\ UNCHANGED <<db, active_runs, must_cancel, session, event_counter,
                   raw_event, exc, stream>>
    /\ UNCHANGED ext

\* await streaming_service.store_event_from_raw(...) raises: the call is not
\* inside a try of its own, the exception leaves the loop.
StoreRaise(run_id) ==
    /\ Resumes(run_id, "store")
    /\ Raise(run_id, StoreErr)
    /\ UNCHANGED <<db, active_runs, must_cancel, session, locals, stream>>
    /\ UNCHANGED ext

\* The stream is exhausted: the task goes on to update_run_status.
StreamEnd(run_id) ==
    /\ Resumes(run_id, "stream")
    /\ Goto(run_id, "fin_status")
    /\ UNCHANGED <<db, active_runs, must_cancel, session, locals, exc, stream, calls>>
    /\ UNCHANGED ext

\* get_graph or the stream raises.
StreamRaise(run_id) ==
    /\ Resumes(run_id, "stream")
    /\ \E e \in AgentErrors : Raise(run_id, e)
    /\ UNCHANGED <<db, active_runs, must_cancel, session, locals, stream>>
    /\ UNCHANGED ext

\* await update_run_status(run_id, "interrupted" | "completed", output=final_output or {})
FinStatus(run_id, outcomes) ==
    /\ Resumes(run_id, "fin_status")
    /\ \E o \in outcomes :
         IF o = "ok"
         THEN /\ WriteRun(run_id, ExhaustedStatus(has_interrupt[run_id]),
                          OrEmpty(final_output[run_id]), NoError)
              /\ Goto(run_id, "fin_thread")
              /\ Log(run_id, Committed(run_id))
              /\ UNCHANGED exc
         ELSE /\ Raise(run_id, DbError)
              /\ UNCHANGED run_db
    /\ UNCHANGED <<thread_status, active_runs, must_cancel, session, locals, stream>>
    /\ UNCHANGED ext

\* await set_thread_status(session, thread_id, "interrupted" | "idle"); the
\* try block ends and the finally block starts.
FinThread(run_id, outcomes) ==
    /\ Resumes(run_id, "fin_thread")
    /\ \E o \in outcomes :
         IF o = "ok"
         THEN /\ SetThreadStatus(ThreadOf(run_id), ExhaustedThreadStatus(has_interrupt[run_id]))
              /\ Goto(run_id, "cleanup")
              /\ Log(run_id, Entry("set_thread_status",
                                   ExhaustedThreadStatus(has_interrupt[run_id]),
                                   NoId, NoneVal, NoError))
              /\ UNCHANGED exc
         ELSE /\ Raise(run_id, DbError)
              /\ UNCHANGED thread_status
    /\ UNCHANGED <<run_db, active_runs, must_cancel, session, locals, stream>>
    /\ UNCHANGED ext

\* except asyncio.CancelledError:
\*     await update_run_status(run_id, "cancelled", output={}, session=session)
CancelStatus(run_id, outcomes) ==
    /\ Resumes(run_id, "c_status")
    /\ \E o \in outcomes :
         IF o = "ok"
         THEN /\ WriteRun(run_id, "cancelled", CancelHandlerOutput(final_output[run_id]), NoError)
              /\ Goto(run_id, "c_thread")
              /\ Log(run_id, Committed(run_id))
              /\ UNCHANGED exc
         ELSE /\ Raise(run_id, DbError)
              /\ UNCHANGED run_db
    /\ UNCHANGED <<thread_status, active_runs, must_cancel, session, locals, stream>>
    /\ UNCHANGED ext

\*     await set_thread_status(session, thread_id, "idle")
CancelThread(run_id, outcomes) ==
    /\ Resumes(run_id, "c_thread")
    /\ \E o \in outcomes :
         IF o = "ok"
         THEN /\ SetThreadStatus(ThreadOf(run_id), "idle")
              /\ Goto(run_id, "c_signal")
              /\ Log(run_id, Entry("set_thread_status", "idle", NoId, NoneVal, NoError))
              /\ UNCHANGED exc
         ELSE /\ Raise(run_id, DbError)
              /\ UNCHANGED thread_status
    /\ UNCHANGED <<run_db, active_runs, must_cancel, session, locals, stream>>
    /\ UNCHANGED ext

\*     await streaming_service.signal_run_cancelled(run_id); raise
CancelSignal(run_id) ==
    /\ Resumes(run_id, "c_signal")
    /\ Log(run_id, Entry("signal_run_cancelled", "", NoId, NoneVal, NoError))
    /\ Goto(run_id, "cleanup")
    /\ UNCHANGED <<db, active_runs, must_cancel, session, locals, exc, stream>>
    /\ UNCHANGED ext

\* except Exception as e:
\*     await update_run_status(run_id, "failed", output={}, error=str(e), session=session)
FailStatus(run_id, outcomes) ==
    /\ Resumes(run_id, "f_status")
    /\ \E o \in outcomes :
         IF o = "ok"
         THEN /\ WriteRun(run_id, "failed", FailHandlerOutput(final_output[run_id]),
                          FailHandlerError(exc[run_id]))
              /\ Goto(run_id, "f_thread")
              /\ Log(run_id, Committed(run_id))
              /\ UNCHANGED exc
         ELSE /\ Raise(run_id, DbError)
              /\ UNCHANGED run_db
    /\ UNCHANGED <<thread_status, active_runs, must_cancel, session, locals, stream>>
    /\ UNCHANGED ext

\*     await set_thread_status(session, thread_id, "idle")
FailThread(run_id, outcomes) ==
    /\ Resumes(run_id, "f_thread")
    /\ \E o \in outcomes :
         IF o = "ok"
         THEN /\ SetThreadStatus(ThreadOf(run_id), "idle")
              /\ Goto(run_id, "f_signal")
              /\ Log(run_id, Entry("set_thread_status", "idle", NoId, NoneVal, NoError))
              /\ UNCHANGED exc
         ELSE /\ Raise(run_id, DbError)
              /\ UNCHANGED thread_status
    /\ UNCHANGED <<run_db, active_runs, must_cancel, session, locals, stream>>
    /\ UNCHANGED ext

\*     await streaming_service.signal_run_error(run_id, str(e)); raise
FailSignal(run_id) ==
    /\ Resumes(run_id, "f_signal")
    /\ Log(run_id, Entry("signal_run_error", "", NoId, NoneVal, Str(exc[run_id])))
    /\ Goto(run_id, "cleanup")
    /\ UNCHANGED <<db, active_runs, must_cancel, session, locals, exc, stream>>
    /\ UNCHANGED ext

\* finally: await streaming_service.cleanup_run(run_id); active_runs.pop(run_id, None)
\* The task is done; what was in flight is raised out of it.
Cleanup(run_id) ==
    /\ Resumes(run_id, "cleanup")
    /\ Log(run_id, Entry("cleanup_run", "", NoId, NoneVal, NoError))
    /\ active_runs' = active_runs \ {run_id}
    /\ Goto(run_id, "done")
    /\ UNCHANGED <<db, must_cancel, session, locals, exc, stream>>
    /\ UNCHANGED ext

\* Where a CancelledError thrown into the task at its await takes it: a task
\* that has not run, or is still before the try, just ends; inside the try
\* the CancelledError handler starts; inside a handler the finally block
\* starts; inside the finally block the task ends with the pop not executed.
AfterCancel(label) ==
    IF label \in BeforeTry THEN "done"
    ELSE IF label \in InTry THEN "c_status"
    ELSE IF label \in InHandler THEN "cleanup"
    ELSE "done"

\* The task is resumed with the pending cancellation: the awaited call does
\* not complete, CancelledError is raised at the await.
Cancelled(run_id) ==
    /\ must_cancel[run_id]
    /\ pc[run_id] \notin {"none", "done"}
    /\ must_cancel' = [must_cancel EXCEPT ![run_id] = FALSE]
    /\ exc' = [exc EXCEPT ![run_id] = CancelledError]
    /\ Goto(run_id, AfterCancel(pc[run_id]))
    /\ Log(run_id, Entry("CancelledError", pc[run_id], NoId, NoneVal, NoError))
    /\ UNCHANGED <<db, active_runs, session, locals, stream>>
    /\ UNCHANGED ext

-----------------------------------------------------------------------------
(* Specifications.                                                          *)

DbOutcomes == {"ok", "raise"}
DbWorks == {"ok"}

\* One step of the task inside the try statement, its handlers or its finally.
FromTry(run_id, outcomes, events) ==
    \/ SetRunning(run_id, outcomes)
    \/ Pull(run_id, events)
    \/ PutToBroker(run_id)
    \/ StoreEvent(run_id)
    \/ StreamEnd(run_id)
    \/ StreamRaise(run_id)
    \/ FinStatus(run_id, outcomes)
    \/ FinThread(run_id, outcomes)
    \/ FailStatus(run_id, outcomes)
    \/ FailThread(run_id, outcomes)
    \/ FailSignal(run_id)
    \/ Cleanup(run_id)

\* One step of the executor task of a run.
Executor(run_id, outcomes, events) ==
    \/ Start(run_id)
    \/ RagDone(run_id)
    \/ FromTry(run_id, outcomes, events)

\* The steps that exist only once a cancellation was requested.
CancelPath(run_id, outcomes) ==
    \/ Cancelled(run_id)
    \/ CancelStatus(run_id, outcomes)
    \/ CancelThread(run_id, outcomes)
    \/ CancelSignal(run_id)

\* The lifecycle: endpoints and executor interleaved, cancellation at any
\* await, any database call of the executor may raise.
Next ==
    \E r \in FirstRun :
        \/ CreateRun(r)
        \/ CancelRunEndpoint(r)
        \/ CancelReturn(r)
        \/ UpdateRun(r)
        \/ Executor(r, DbOutcomes, CoreEvents)
        \/ CancelPath(r, DbOutcomes)

Spec == Init /\ [][Next]_vars

\* The executor alone on every kind of event: no cancellation is requested
\* and the database works.
StreamNext ==
    \E r \in FirstRun :
        \/ CreateRun(r)
        \/ Executor(r, DbWorks, AllEvents)

StreamSpec == Init /\ [][StreamNext]_vars

-----------------------------------------------------------------------------
(* Readings of the histories.                                               *)

Ops(run_id, op) == SelectSeq(calls[run_id], LAMBDA c : c.op = op)
Commits(run_id) == Ops(run_id, "update_run_status")
Finished(run_id) == pc[run_id] = "done"
CleanedUp(run_id) == Len(Ops(run_id, "cleanup_run")) > 0

\* The task was cancelled before its first step: no line of
\* execute_run_async was executed.
NeverRan(run_id) ==
    \E i \in 1..Len(calls[run_id]) :
        calls[run_id][i].op = "CancelledError" /\ calls[run_id][i].s = "created"

\* The thread status that goes with a terminal run status.
ThreadStatusFor(status) == IF status = "interrupted" THEN "interrupted" ELSE "idle"

-----------------------------------------------------------------------------
(* C1. Once the persisted status of a run is completed, interrupted,        *)
(* cancelled or failed, no step of the executor, of cancel_run_endpoint or  *)
(* of update_run changes it to another value.                               *)
C1_StatusMonotonic ==
    [][\A r \in RunIds :
          run_db[r].status \in Terminal => run_db'[r].status = run_db[r].status]_vars

(* C2. One execution of execute_run_async commits at most one terminal      *)
(* status: after committing completed or interrupted it commits neither     *)
(* failed nor cancelled.                                                    *)
C2_OneTerminalWrite ==
    \A r \in RunIds :
        \A i, j \in 1..Len(Commits(r)) :
            (i < j /\ Commits(r)[i].s \in {"completed", "interrupted"})
                => Commits(r)[j].s \notin {"failed", "cancelled"}

(* C3. Once the executor task of a run is done (having run at all),         *)
(* cleanup_run(run_id) has                                                  *)
(* been called and active_runs has no entry for the run, on every exit path *)
(* including a cancellation at an await before the status update to         *)
(* running.                                                                 *)
C3_CleanupUnconditional ==
    \A r \in RunIds :
        (Finished(r) /\ ~NeverRan(r)) => (CleanedUp(r) /\ r \notin active_runs)

(* C4. At the moment the executor task of a run (having run at all)         *)
(* finishes with the run in a                                               *)
(* terminal status, the owning thread's status is interrupted for an        *)
(* interrupted run and idle for a completed, cancelled or failed one.       *)
C4_ThreadFollowsRun ==
    [][\A r \in RunIds :
          (~Finished(r) /\ Finished(r)' /\ ~NeverRan(r)' /\ run_db'[r].status \in Terminal)
              => thread_status'[ThreadOf(r)] = ThreadStatusFor(run_db'[r].status)]_vars

-----------------------------------------------------------------------------
(* What the claims call a values-mode event and the interrupt marker.       *)

\* A (mode, data) tuple tagged "values", or a bare event (utils.py: "Non-tuple
\* events are values mode").
IsValuesMode(event) ==
    \/ event.shape = "tuple2" /\ event.mode = "values"
    \/ event.shape = "bare"

\* The event carries a mapping with the key __interrupt__.
CarriesMarker(event) ==
    /\ event.shape \in {"tuple2", "bare"}
    /\ event.data.kind = "dict"
    /\ "__interrupt__" \in event.data.keys

ValuesEvents(events) == SelectSeq(events, IsValuesMode)
HasValues(events) == Len(ValuesEvents(events)) > 0
LastValuesPayload(events) == ValuesEvents(events)[Len(ValuesEvents(events))].data

\* The events before the first one that carries the marker.
HasMarker(events) == \E i \in 1..Len(events) : CarriesMarker(events[i])
FirstMarker(events) ==
    CHOOSE i \in 1..Len(events) :
        CarriesMarker(events[i]) /\ \A j \in 1..(i - 1) : ~CarriesMarker(events[j])
BeforeMarker(events) == SubSeq(events, 1, FirstMarker(events) - 1)

ModesOf(events) == { events[i].mode : i \in 1..Len(events) }

(* C5. The n-th event pulled from the agent stream goes to put_to_broker    *)
(* and to store_event_from_raw under the identifier (run_id, n): the        *)
(* identifiers of either call are 1, 2, ..., k in order, without gap or     *)
(* repeat, whatever the modes of the events.                                *)
C5_EventIdsSequential ==
    \A r \in RunIds :
        LET broker == Ops(r, "put_to_broker")
            store == Ops(r, "store_event_from_raw")
        IN /\ Len(broker) <= Len(stream[r])
           /\ Len(store) <= Len(broker)
           /\ Len(stream[r]) - Len(store) <= 1
           /\ \A n \in 1..Len(broker) :
                  broker[n].id = EventId(r, n) /\ broker[n].v = stream[r][n]
           /\ \A n \in 1..Len(store) :
                  store[n].id = EventId(r, n) /\ store[n].v = stream[r][n]

\* Three events of three different modes were forwarded and stored.
C5_Witness ==
    \E r \in RunIds :
        /\ Len(Ops(r, "store_event_from_raw")) >= 3
        /\ {"values", "updates", "messages"} \subseteq ModesOf(stream[r])

(* C6. A run whose persisted status is completed and whose stream held a    *)
(* values-mode event has as persisted output the serialized payload of the  *)
(* last values-mode event (when the serializer accepts it); events of other *)
(* modes do not change it.                                                  *)
C6_CompletedOutput ==
    \A r \in RunIds :
        (/\ run_db[r].status = "completed"
         /\ HasValues(stream[r])
         /\ ~SerializerRaises(LastValuesPayload(stream[r])))
            => run_db[r].output = Serialize(LastValuesPayload(stream[r]))

\* A completed run whose last values-mode event was followed by a mapping
\* in another mode.
C6_Witness ==
    \E r \in RunIds :
        /\ run_db[r].status = "completed"
        /\ Len(stream[r]) >= 2
        /\ stream[r][Len(stream[r]) - 1] = Tuple2("values", DictB)
        /\ stream[r][Len(stream[r])] = Tuple2("updates", DictA)
        /\ run_db[r].output = Serialize(DictB)

(* C7, as stated. A run whose persisted status is interrupted has as        *)
(* persisted output the last values-mode payload seen before the event      *)
(* that carries the __interrupt__ marker.                                   *)
C7_OutputBeforeMarker ==
    \A r \in RunIds :
        (/\ run_db[r].status = "interrupted"
         /\ HasMarker(stream[r])
         /\ HasValues(BeforeMarker(stream[r]))
         /\ ~SerializerRaises(LastValuesPayload(BeforeMarker(stream[r]))))
            => run_db[r].output = Serialize(LastValuesPayload(BeforeMarker(stream[r])))

(* C7, amended. A run whose persisted status is interrupted has as          *)
(* persisted output the serialized payload of the last values-mode event of *)
(* the whole stream, the event that carries the marker and the events after *)
(* it included, and {} when the stream held no values-mode event.           *)
C7_InterruptedOutput ==
    \A r \in RunIds :
        run_db[r].status = "interrupted" =>
            IF HasValues(stream[r])
            THEN ~SerializerRaises(LastValuesPayload(stream[r]))
                    => run_db[r].output = Serialize(LastValuesPayload(stream[r]))
            ELSE run_db[r].output = Serialize(EmptyDict)

\* An interrupted run with a values-mode event after the marker, stored.
C7_Witness ==
    \E r \in RunIds :
        /\ run_db[r].status = "interrupted"
        /\ stream[r] = << Tuple2("values", DictA), Tuple2("updates", DictI),
                          Tuple2("values", DictB) >>
        /\ run_db[r].output = Serialize(DictB)

-----------------------------------------------------------------------------
(* The handlers. A scenario is read off the history of a finished task.     *)

CancelPoints(run_id) == Ops(run_id, "CancelledError")
Raises(run_id) == Ops(run_id, "raise")

\* The position in the history of the first entry of an operation.
FirstOp(run_id, op) ==
    CHOOSE i \in 1..Len(calls[run_id]) :
        calls[run_id][i].op = op /\ \A j \in 1..(i - 1) : calls[run_id][j].op # op
After(run_id, i) == SubSeq(calls[run_id], i + 1, Len(calls[run_id]))

\* The task was cancelled once, while awaiting the next agent event, and no
\* call of its handler raised.
CancelledMidStream(run_id) ==
    /\ Finished(run_id)
    /\ Len(CancelPoints(run_id)) = 1
    /\ CancelPoints(run_id)[1].s = "stream"
    /\ Len(Raises(run_id)) = 0

\* The agent stream raised, the task was not cancelled, and no call of the
\* handler raised.
FailedMidStream(run_id) ==
    /\ Finished(run_id)
    /\ Len(CancelPoints(run_id)) = 0
    /\ Len(Raises(run_id)) = 1
    /\ Raises(run_id)[1].s = "stream"

(* C8. A task cancelled while it awaits the next agent event commits status *)
(* cancelled with output {}, sets the thread idle, then calls               *)
(* signal_run_cancelled exactly once, then cleanup_run, and ends by raising *)
(* the CancelledError.                                                      *)
C8_CancelMidStream ==
    \A r \in RunIds :
        CancelledMidStream(r) =>
            /\ After(r, FirstOp(r, "CancelledError")) =
                 << Entry("update_run_status", "cancelled", NoId,
                          Serialize(EmptyDict), After(r, FirstOp(r, "CancelledError"))[1].e),
                    Entry("set_thread_status", "idle", NoId, NoneVal, NoError),
                    Entry("signal_run_cancelled", "", NoId, NoneVal, NoError),
                    Entry("cleanup_run", "", NoId, NoneVal, NoError) >>
            /\ Len(Ops(r, "signal_run_cancelled")) = 1
            /\ exc[r] = CancelledError
            /\ r \notin active_runs

\* Cancelled after a values-mode event had been stored.
C8_Witness ==
    \E r \in RunIds :
        /\ CancelledMidStream(r)
        /\ Len(Ops(r, "store_event_from_raw")) >= 1
        /\ final_output[r] = DictA

(* C9. When the agent stream raises e, after any number of events, the task *)
(* commits status failed with error_message str(e) and output {}, sets the  *)
(* thread idle, then calls signal_run_error(run_id, str(e)), then           *)
(* cleanup_run, and ends by raising e.                                      *)
C9_FailMidStream ==
    \A r \in RunIds :
        FailedMidStream(r) =>
            /\ exc[r] \in AgentErrors
            /\ Raises(r)[1].e = Str(exc[r])
            /\ After(r, FirstOp(r, "raise")) =
                 << Entry("update_run_status", "failed", NoId,
                          Serialize(EmptyDict), Str(exc[r])),
                    Entry("set_thread_status", "idle", NoId, NoneVal, NoError),
                    Entry("signal_run_error", "", NoId, NoneVal, Str(exc[r])),
                    Entry("cleanup_run", "", NoId, NoneVal, NoError) >>
            /\ r \notin active_runs

\* The stream raised after two events.
C9_Witness ==
    \E r \in RunIds :
        /\ FailedMidStream(r)
        /\ Len(Ops(r, "store_event_from_raw")) = 2
        /\ exc[r] = AgentErr2

-----------------------------------------------------------------------------
(* Progress. The event loop runs every task that can run; requests come    *)
(* when clients send them. The database works.                              *)

LiveEvents == { Tuple2("values", DictA), Tuple2("updates", DictI) }

ExecutorStep(run_id) ==
    Executor(run_id, DbWorks, LiveEvents) \/ CancelPath(run_id, DbWorks)

LiveNext ==
    \E r \in FirstRun :
        \/ CreateRun(r)
        \/ CancelRunEndpoint(r)
        \/ CancelReturn(r)
        \/ UpdateRun(r)
        \/ ExecutorStep(r)

LiveSpec ==
    Init /\ [][LiveNext]_vars /\ \A r \in RunIds : WF_vars(ExecutorStep(r))

(* C10. Every run whose record was created eventually has a persisted       *)
(* terminal status, the agent stream ending or raising and the database     *)
(* working, also when cancellation is requested at any moment.              *)
C10_EventuallyTerminal ==
    \A r \in RunIds :
        [](run_db[r].status # "none" => <>(run_db[r].status \in Terminal))

-----------------------------------------------------------------------------
(* Cancel requests against a run that executes. The database works.         *)

CancelNext ==
    \E r \in FirstRun :
        \/ CreateRun(r)
        \/ CancelRunEndpoint(r)
        \/ CancelReturn(r)
        \/ Executor(r, DbWorks, LiveEvents)
        \/ CancelPath(r, DbWorks)

CancelSpec == Init /\ [][CancelNext]_vars

\* The step is a call of cancel_run_endpoint with the action: of the steps
\* of CancelNext only that call writes the status with the task standing
\* still.
IsCancelCall(run_id, action) ==
    /\ requests'[run_id] = requests[run_id] \cup {action}
    /\ run_db'[run_id].status = ActionStatus(action)
    /\ pc' = pc
    /\ calls' = calls

(* C11. cancel_run_endpoint is idempotent: on a run whose task has finished, *)
(* a call with the action it was called with before (and with no other)     *)
(* leaves the persisted run status, the thread status and the registry as   *)
(* the earlier call and the execution left them.                            *)
C11_CancelIdempotent ==
    [][\A r \in RunIds : \A a \in Actions :
          (Finished(r) /\ requests[r] = {a} /\ IsCancelCall(r, a))
              => /\ run_db'[r].status = run_db[r].status
                 /\ thread_status' = thread_status
                 /\ active_runs' = active_runs]_vars

-----------------------------------------------------------------------------
(* C12. A run record is created with status pending, by either endpoint,    *)
(* and its status leaves pending only through the executor's update to      *)
(* running.                                                                 *)
C12_CreatedPending ==
    [][\A r \in RunIds :
          /\ (run_db[r].status = "none" /\ run_db'[r].status # "none")
                => run_db'[r].status = "pending"
          /\ (run_db[r].status = "pending" /\ run_db'[r].status # "pending")
                => (run_db'[r].status = "running" /\ pc[r] = "set_running")]_vars

-----------------------------------------------------------------------------
(* The executor with an event store that may fail. The database of runs     *)
(* and threads works and no cancellation is requested.                      *)

StoreNext ==
    \E r \in FirstRun :
        \/ CreateRun(r)
        \/ Executor(r, DbWorks, CoreEvents)
        \/ StoreRaise(r)

StoreSpec == Init /\ [][StoreNext]_vars

\* The only exceptions of the execution came from store_event_from_raw.
OnlyStoreFailed(run_id) ==
    /\ Len(Raises(run_id)) > 0
    /\ \A i \in 1..Len(Raises(run_id)) : Raises(run_id)[i].s = "store"

(* C13. A failure of store_event_from_raw does not abort the run: the       *)
(* finished run has the terminal status the agent stream determines,        *)
(* completed or interrupted, and not failed.                                *)
C13_StoreFailureTolerated ==
    \A r \in RunIds :
        (Finished(r) /\ OnlyStoreFailed(r))
            => run_db[r].status \in {"completed", "interrupted"}

-----------------------------------------------------------------------------
\* The execution ended without an exception and the serializer rejects the
\* payload of the last values-mode event.
EndedWithBadOutput(run_id) ==
    /\ Finished(run_id)
    /\ Len(Raises(run_id)) = 0
    /\ HasValues(stream[run_id])
    /\ SerializerRaises(LastValuesPayload(stream[run_id]))

(* C14. When the serializer raises on the final output, update_run_status   *)
(* stores the diagnostic placeholder as output and still writes the status: *)
(* the run ends interrupted if the stream carried the marker and completed  *)
(* otherwise, as it would with an output the serializer accepts.            *)
C14_PlaceholderStored ==
    \A r \in RunIds :
        EndedWithBadOutput(r) =>
            /\ run_db[r].status =
                  (IF HasMarker(stream[r]) THEN "interrupted" ELSE "completed")
            /\ run_db[r].output = Placeholder(LastValuesPayload(stream[r]))
            /\ run_db[r].error_message = NoError

\* An interrupted run whose last event holds a payload the serializer
\* rejects.
C14_Witness ==
    \E r \in RunIds :
        /\ EndedWithBadOutput(r)
        /\ run_db[r].status = "interrupted"
        /\ run_db[r].output.form = "placeholder"
        /\ stream[r][Len(stream[r])] = Tuple2("values", DictU)

-----------------------------------------------------------------------------
(* inject_rag_context on every input, and the execution that follows it.    *)
(* The database of runs works and no cancellation is requested.             *)

RECURSIVE SeqsUpTo(_, _)
SeqsUpTo(S, n) ==
    IF n = 0 THEN {<<>>}
    ELSE SeqsUpTo(S, n - 1) \cup
         { Append(q, x) : q \in { t \in SeqsUpTo(S, n - 1) : Len(t) = n - 1 }, x \in S }

Inputs == SeqsUpTo(Messages, MaxMessages)

RagInit == InitRuns /\ InitServices /\ \E messages \in Inputs : InitInput(messages)

RagNext ==
    \E r \in FirstRun :
        \/ CreateRun(r)
        \/ Start(r)
        \/ RagLookup(r)
        \/ RagSearch(r)
        \/ FromTry(r, DbWorks, LiveEvents)

RagSpec == RagInit /\ [][RagNext]_vars

\* inject_rag_context has returned.
RagReturned(run_id) == rag_path[run_id] \notin {"lookup", "search"}
RagRaised(run_id) ==
    rag_path[run_id] \in {"lookup_raised", "extract_raised", "search_raised"}

\* The caller's input object holds what it held when the run was created.
InputIntact == heap["D0"] = Dict("L0") /\ heap["L0"] = List(caller_input)

\* Two message lists differ in the content of the message at index i and
\* in nothing else.
DiffersOnlyAt(before, after, i) ==
    /\ Len(after) = Len(before)
    /\ \A j \in 1..Len(before) : j # i => after[j] = before[j]
    /\ after[i].type = before[i].type
    /\ after[i].content # before[i].content

(* C15. inject_rag_context never mutates the caller's input: on every path  *)
(* the input and its messages are as they were; without injection the       *)
(* input itself is returned; with injection the result is another object,   *)
(* sharing no list with the input, that differs from it only in the         *)
(* content of the last human message.                                       *)
C15_InputNotMutated ==
    /\ InputIntact
    /\ \A r \in RunIds :
          /\ (RagReturned(r) /\ rag_path[r] # "injected") => input_data[r] = "D0"
          /\ rag_path[r] = "injected" =>
                /\ input_data[r] # "D0"
                /\ heap[input_data[r]].messages # "L0"
                /\ DiffersOnlyAt(caller_input, MessagesOf(heap, input_data[r]),
                                 LastHuman(caller_input, Len(caller_input)))

\* The context was injected into a two-message input whose last human
\* message holds a content list.
C15_Witness ==
    \E r \in RunIds :
        /\ rag_path[r] = "injected"
        /\ caller_input = << Msg("human", ContentList(ItemDict(Query))),
                              Msg("ai", ContentStr(Query)) >>
        /\ MessagesOf(heap, input_data[r])[1] =
              Msg("human", ContentList(ItemDict(Prepend(Context, Query))))

-----------------------------------------------------------------------------
(* C17. A cancel request with wait=1 that found a task registered returns   *)
(* only after the task (having run at all) is done, whatever the task       *)
(* raised, and when it returns active_runs no longer contains the run.      *)
C17_WaitSettles ==
    [][\A r \in RunIds :
          (waiting[r] /\ ~waiting'[r] /\ ~NeverRan(r))
              => (Finished(r) /\ r \notin active_runs')]_vars

-----------------------------------------------------------------------------
(* Deletion of a thread whose run executes. The database works.             *)

DeleteNext ==
    \/ \E t \in ThreadIds : DeleteChat(t) \/ DeleteSettled(t)
    \/ \E r \in FirstRun :
          \/ CreateRun(r)
          \/ CancelRunEndpoint(r)
          \/ CancelReturn(r)
          \/ Executor(r, DbWorks, LiveEvents)
          \/ CancelPath(r, DbWorks)

DeleteSpec == Init /\ [][DeleteNext]_vars

\* The task of the run has executed a step of execute_run_async.
Started(run_id) == pc[run_id] \notin {"none", "created"}

(* C18. When delete_chat deletes a thread, no executor task of a run of the *)
(* thread (that had started) is still executing and active_runs holds no    *)
(* entry for it, whatever the persisted status of the run was.              *)
C18_DeleteStopsRuns ==
    [][\A r \in RunIds :
          (/\ thread_status[ThreadOf(r)] # "deleted"
           /\ thread_status'[ThreadOf(r)] = "deleted"
           /\ Started(r))
              => (Finished(r)' /\ r \notin active_runs')]_vars

-----------------------------------------------------------------------------
(* File uploads: api/file_routes.py.  Every await of upload_files is a point
   where another request runs; each commit is its own transaction. *)

\* What the file endpoints leave alone.
runv == <<run_db, thread_status, active_runs, pc, must_cancel, session,
          locals, exc, stream, calls>>
notFiles == <<runv, reqs, ragv, pwv, modev, authv>>

\* The files lists a request can carry.
Batches == UNION { [1..n -> Filenames] : n \in 1..MaxBatch }

\* select(func.count(FileUploadORM.id)).where(thread_id == thread_id)
ExistingCount == Cardinality(file_upload)

\* upload_files up to the end of the validation loop: the count check and the
\* MIME type and size checks raise HTTPException and leave the table alone.
UploadFiles(u) ==
    /\ upload[u].at = "idle"
    /\ \E files \in Batches, valid \in BOOLEAN :
           upload' = [upload EXCEPT ![u] =
               IF ExistingCount + Len(files) > MAX_UPLOAD_FILES \/ ~valid
               THEN Idle
               ELSE [at |-> "existing", files |-> files, existing_file |-> FALSE]]
    /\ UNCHANGED <<file_upload, notFiles>>

\* The head of the second loop: the record with the file's name, if there is
\* one (existing_file), is deleted and the deletion committed.
UploadReplace(u) ==
    /\ upload[u].at = "existing"
    /\ file_upload' = file_upload \ {Head(upload[u].files)}
    /\ upload' = [upload EXCEPT ![u].at = "process",
                                ![u].existing_file = Head(upload[u].files) \in file_upload]
    /\ UNCHANGED notFiles

\* idx_file_upload_unique: a second record of the same thread and filename
\* makes the flush raise, which upload_files turns into a rollback and a 500.
UploadStore(u) ==
    /\ upload[u].at = "process"
    /\ LET filename == Head(upload[u].files)
           rest == Tail(upload[u].files)
       IN  IF filename \in file_upload
           THEN /\ upload' = [upload EXCEPT ![u] = Idle]
                /\ UNCHANGED file_upload
           ELSE /\ file_upload' = file_upload \cup {filename}
                /\ upload' = [upload EXCEPT ![u] =
                       IF rest = <<>> THEN Idle
                       ELSE [at |-> "existing", files |-> rest, existing_file |-> FALSE]]
    /\ UNCHANGED notFiles

\* No text, no chunks, or extract_text / embed_batch raising: the request ends
\* with the files it has committed so far.
UploadFail(u) ==
    /\ upload[u].at = "process"
    /\ upload' = [upload EXCEPT ![u] = Idle]
    /\ UNCHANGED <<file_upload, notFiles>>

\* delete_file of a record that exists (a missing one is a 404).
DeleteFile(filename) ==
    /\ filename \in file_upload
    /\ file_upload' = file_upload \ {filename}
    /\ UNCHANGED <<upload, notFiles>>

FileNext ==
    \/ \E u \in Uploads :
           \/ UploadFiles(u)
           \/ UploadReplace(u)
           \/ UploadStore(u)
           \/ UploadFail(u)
    \/ \E filename \in Filenames : DeleteFile(filename)

FileSpec == Init /\ [][FileNext]_vars

\* C19: at every moment the thread has at most MAX_UPLOAD_FILES file records,
\* for any interleaving of upload_files and delete_file requests, two
\* concurrent uploads to the same thread included.
C19_FileLimit == Cardinality(file_upload) <= MAX_UPLOAD_FILES

\* The request u stops processing the file at the head of its list: the file
\* is stored, or its processing fails and the request ends.
EndsFile(u) ==
    /\ upload[u].at = "process"
    /\ upload'[u].at # "process"

(* C29. A failed re-upload does not lose data: when upload_files found a   *)
(* record with the file's name in the thread (existing_file) and is done   *)
(* with the file, by storing it or by failing, the thread still has a      *)
(* record with that name.                                                   *)
C29_FailedReuploadKeepsFile ==
    [][\A u \in Uploads :
          (EndsFile(u) /\ upload[u].existing_file)
              => Head(upload[u].files) \in file_upload']_vars

-----------------------------------------------------------------------------
(* Password reset: services/password_reset_store.py and the three endpoints
   of api/user_routes.py.  The store's methods have no await: each runs whole. *)

notReset == <<runv, reqs, ragv, filev, modev, authv>>

\* _cleanup_expired: the entries whose expires_at is before now are removed.
CleanupExpired(s) ==
    [e \in Emails |-> IF s[e] # NoEntry /\ s[e].expires_at < now THEN NoEntry ELSE s[e]]

\* _cleanup_expired's effect on _code_to_email: the code of each removed entry
\* is popped.
CleanupCodes(s, m) ==
    [c \in Codes |->
        IF \E e \in Emails : s[e] # NoEntry /\ s[e].expires_at < now /\ s[e].code = c
        THEN NoEmail ELSE m[c]]

\* self._code_to_email.pop(code, None)
PopCodeKept(m, code) == m

PopCode(m, code) == [c \in Codes |-> IF c = code THEN NoEmail ELSE m[c]]

\* create_reset_code up to _generate_code: the maps after the cleanup and the
\* removal of the email's entry.
CodesBeforeCreateKept(s, m, email) == CleanupCodes(s, m)

CodesBeforeCreate(s, m, email) ==
    IF CleanupExpired(s)[email] # NoEntry
    THEN PopCode(CleanupCodes(s, m), CleanupExpired(s)[email].code)
    ELSE CleanupCodes(s, m)

\* while code in self._code_to_email: the codes the loop can end with.
FreshCodes(s, m, email) == { c \in Codes : CodesBeforeCreate(s, m, email)[c] = NoEmail }

\* create_reset_code's effect on _code_to_email.
CreatedCodes(s, m, email, code) == [CodesBeforeCreate(s, m, email) EXCEPT ![code] = email]

\* consume_verified's effect on _code_to_email.
ConsumedCodes(s, m, email) ==
    IF CleanupExpired(s)[email] # NoEntry /\ CleanupExpired(s)[email].verified
    THEN PopCode(CleanupCodes(s, m), CleanupExpired(s)[email].code)
    ELSE CleanupCodes(s, m)

\* get_email_by_code's result.
get_email_by_code(s, m, code) ==
    IF Upper(code) \in Codes THEN CleanupCodes(s, m)[Upper(code)] ELSE NoEmail

\* create_reset_code, with the code _generate_code returned.
CreateResetCode(s, email, code) ==
    [CleanupExpired(s) EXCEPT ![email] =
        [code |-> code, expires_at |-> now + expiry_minutes, verified |-> FALSE]]

\* verify_code's result.
VerifyCode(s, email, code) ==
    LET entry == CleanupExpired(s)[email]
    IN  /\ entry # NoEntry
        /\ Upper(entry.code) = Upper(code)
        /\ ~(entry.expires_at < now)

\* verify_code's effect on _store.
Verified(s, email, code) ==
    IF VerifyCode(s, email, code)
    THEN [CleanupExpired(s) EXCEPT ![email].verified = TRUE]
    ELSE CleanupExpired(s)

\* consume_verified's result.
ConsumeVerified(s, email) ==
    CleanupExpired(s)[email] # NoEntry /\ CleanupExpired(s)[email].verified

\* consume_verified's effect on _store.
ConsumedKept(s, email) == CleanupExpired(s)

Consumed(s, email) ==
    IF ConsumeVerified(s, email)
    THEN [CleanupExpired(s) EXCEPT ![email] = NoEntry]
    ELSE CleanupExpired(s)

\* datetime.now advances between requests.
Tick ==
    /\ \E d \in Delays : now + d <= MaxTime /\ now' = now + d
    /\ UNCHANGED <<password_reset_store, code_to_email, issued, password, reset, notReset>>

\* forgot_password: 404 for an address without a user, else a new code that
\* no entry holds.
ForgotPassword(email) ==
    /\ IF email \notin Users
       THEN UNCHANGED <<password_reset_store, code_to_email, issued>>
       ELSE \E code \in FreshCodes(password_reset_store, code_to_email, email) :
                /\ password_reset_store' = CreateResetCode(password_reset_store, email, code)
                /\ code_to_email' = CreatedCodes(password_reset_store, code_to_email, email, code)
                /\ issued' = [issued EXCEPT ![email] = @ \cup {code}]
    /\ UNCHANGED <<now, password, reset, notReset>>

\* verify_reset_code: 404, 400 or "Code verified successfully."
VerifyResetCode(email) ==
    /\ \E code \in Submitted :
           IF email \notin Users
           THEN UNCHANGED <<password_reset_store, code_to_email>>
           ELSE /\ password_reset_store' = Verified(password_reset_store, email, code)
                /\ code_to_email' = CleanupCodes(password_reset_store, code_to_email)
    /\ UNCHANGED <<issued, now, password, reset, notReset>>

\* reset_password up to its commit: 404, 400 (not verified), 400 (same
\* password), or the request goes on to commit the new hash.
ResetPassword(q, email) ==
    /\ reset[q] = NoReset
    /\ \E new_password \in Passwords :
           IF email \notin Users
           THEN UNCHANGED <<password_reset_store, code_to_email, reset>>
           ELSE /\ password_reset_store' = Consumed(password_reset_store, email)
                /\ code_to_email' = ConsumedCodes(password_reset_store, code_to_email, email)
                /\ reset' = [reset EXCEPT ![q] =
                       IF /\ ConsumeVerified(password_reset_store, email)
                          /\ ~verify_password(new_password, password[email])
                       THEN [at |-> "commit", email |-> email, new_password |-> new_password]
                       ELSE NoReset]
    /\ UNCHANGED <<issued, now, password, notReset>>

\* user.password = hashed_password; session.add(user); await session.commit()
ResetCommit(q) ==
    /\ reset[q].at = "commit"
    /\ password' = [password EXCEPT ![reset[q].email] = get_password_hash(reset[q].new_password)]
    /\ reset' = [reset EXCEPT ![q] = NoReset]
    /\ UNCHANGED <<password_reset_store, code_to_email, issued, now, notReset>>

\* A call of get_email_by_code: only its cleanup changes the store.
GetEmailByCode ==
    /\ password_reset_store' = CleanupExpired(password_reset_store)
    /\ code_to_email' = CleanupCodes(password_reset_store, code_to_email)
    /\ UNCHANGED <<issued, now, password, reset, notReset>>

ResetNext ==
    \/ Tick
    \/ GetEmailByCode
    \/ \E email \in Emails :
           \/ ForgotPassword(email)
           \/ VerifyResetCode(email)
           \/ \E q \in Resets : ResetPassword(q, email)
    \/ \E q \in Resets : ResetCommit(q)

ResetSpec == Init /\ [][ResetNext]_vars

\* The entry of the email is marked verified.
IsVerified(email) == password_reset_store[email] # NoEntry /\ password_reset_store[email].verified

\* C20: a password changes only at the commit of a reset_password request
\* whose consume_verified returned True; consume_verified returns True only
\* for an entry that is marked verified and not expired, and removes it, so
\* that it returns False until a new code is created and verified; an entry
\* becomes verified only as the stored, unexpired entry of the email, never
\* by being created.
C20_ResetNeedsVerification ==
    [][\A e \in Users :
          /\ password'[e] # password[e]
                => \E q \in Resets : /\ reset[q].at = "commit" /\ reset[q].email = e
                                     /\ reset'[q] = NoReset
          /\ (\E q \in Resets : reset[q] = NoReset /\ reset'[q].at = "commit"
                                   /\ reset'[q].email = e)
                => /\ IsVerified(e)
                   /\ ~(password_reset_store[e].expires_at < now)
                   /\ password_reset_store'[e] = NoEntry
          /\ (IsVerified(e)' /\ ~IsVerified(e))
                => /\ password_reset_store[e] # NoEntry
                   /\ ~(password_reset_store[e].expires_at < now)
                   /\ password_reset_store'[e] = [password_reset_store[e] EXCEPT !.verified = TRUE]]_vars

\* A user's password was changed by a reset and the entry is gone.
C20_Witness ==
    \E e \in Users : /\ password[e] # get_password_hash(FirstPassword)
                     /\ password_reset_store[e] = NoEntry
                     /\ \A q \in Resets : reset[q] = NoReset

\* The step is a create_reset_code for the email: its entry is new, and not
\* the old one marked verified.
CreatedFor(email) ==
    /\ password_reset_store'[email] # NoEntry
    /\ password_reset_store'[email] # password_reset_store[email]
    /\ password_reset_store'[email] # [password_reset_store[email] EXCEPT !.verified = TRUE]

\* After the step the code neither verifies for the email nor maps to it.
DeadAfter(email, code) ==
    /\ ~VerifyCode(password_reset_store', email, code)
    /\ get_email_by_code(password_reset_store', code_to_email', code) # email

\* C21 as stated: after create_reset_code(email) the email's entry is
\* unverified and every code issued for the email before neither verifies for
\* it nor maps to it.
C21_OldCodesDead ==
    [][\A e \in Users :
          CreatedFor(e) =>
              /\ ~password_reset_store'[e].verified
              /\ \A c \in issued[e] : DeadAfter(e, c)]_vars

\* C21, amended: after create_reset_code(email) the email's entry is
\* unverified, and every code issued for the email before, other than the one
\* _generate_code has just returned again, neither verifies for it nor maps to
\* it.
C21_OtherOldCodesDead ==
    [][\A e \in Users :
          CreatedFor(e) =>
              /\ ~password_reset_store'[e].verified
              /\ \A c \in issued[e] \ {password_reset_store'[e].code} : DeadAfter(e, c)]_vars

\* A user's code was replaced by another one: the entry is unverified and the
\* first code no longer maps to the user.
C21_Witness ==
    \E e \in Users :
        /\ Cardinality(issued[e]) = 2
        /\ password_reset_store[e] # NoEntry
        /\ ~password_reset_store[e].verified
        /\ \E c \in issued[e] : c # password_reset_store[e].code /\ code_to_email[c] # e

\* C30: code c maps to email e in _code_to_email exactly if _store[e] exists
\* with code c, and get_email_by_code never returns an email whose entry is
\* expired, replaced or consumed.
C30_MapsConsistent ==
    /\ \A c \in Codes, e \in Emails :
           code_to_email[c] = e <=>
               (password_reset_store[e] # NoEntry /\ password_reset_store[e].code = c)
    /\ \A c \in Submitted :
           LET e == get_email_by_code(password_reset_store, code_to_email, c)
           IN  e # NoEmail =>
                   /\ CleanupExpired(password_reset_store)[e] # NoEntry
                   /\ CleanupExpired(password_reset_store)[e].code = Upper(c)

\* One user's entry was consumed or expired while the other's is stored.
C30_Witness ==
    \E e1, e2 \in Users :
        /\ issued[e1] # {} /\ password_reset_store[e1] = NoEntry
        /\ password_reset_store[e2] # NoEntry
        /\ code_to_email[password_reset_store[e2].code] = e2

-----------------------------------------------------------------------------
\* The executor has forwarded and stored every event it pulled.
AllForwarded(run_id) ==
    /\ Len(Ops(run_id, "put_to_broker")) = Len(stream[run_id])
    /\ Len(Ops(run_id, "store_event_from_raw")) = Len(stream[run_id])

(* C22. The interrupt flag is sticky and takes priority: the executor       *)
(* writes interrupted only after the stream is exhausted, with every event  *)
(* pulled, those after the marker included, forwarded and stored; the       *)
(* status it then writes is interrupted if any event carried the marker and *)
(* completed otherwise, and the thread status interrupted or idle likewise. *)
C22_InterruptSticky ==
    [][\A r \in RunIds :
          /\ (run_db'[r].status \in {"interrupted", "completed"}
                 /\ run_db'[r].status # run_db[r].status)
                => pc[r] = "fin_status"
          /\ (pc[r] = "fin_status" /\ pc'[r] = "fin_thread")
                => /\ AllForwarded(r)
                   /\ run_db'[r].status =
                          IF HasMarker(stream[r]) THEN "interrupted" ELSE "completed"
          /\ (pc[r] = "fin_thread" /\ pc'[r] = "cleanup")
                => thread_status'[ThreadOf(r)] =
                          IF HasMarker(stream[r]) THEN "interrupted" ELSE "idle"]_vars

\* A run that ended interrupted with two events stored after the marker.
C22_Witness ==
    \E r \in RunIds :
        /\ Finished(r)
        /\ run_db[r].status = "interrupted"
        /\ thread_status[ThreadOf(r)] = "interrupted"
        /\ Len(stream[r]) = 3
        /\ CarriesMarker(stream[r][1])
        /\ ~CarriesMarker(stream[r][2]) /\ ~CarriesMarker(stream[r][3])
        /\ Len(Ops(r, "store_event_from_raw")) = 3

-----------------------------------------------------------------------------
(* Stream modes: execute_run_async, misc/utils.py 239-302. *)

notModes == <<runv, reqs, ragv, filev, pwv, authv>>

\* The stream_mode values a request can carry.
ModeLists == UNION { [1..n -> ModeNames] : n \in 0..MaxModes }
ModeRequests ==
    {ModeNone} \cup { ModeStr(v) : v \in ModeNames } \cup { ModeItems(l) : l \in ModeLists }

\* _normalize_mode
normalize_mode(mode) == IF mode = "messages-tuple" THEN "messages" ELSE mode

\* [_normalize_mode(m) for m in stream_mode]
NormalizeList(items) == [i \in 1..Len(items) |-> normalize_mode(items[i])]

\* list.copy(): a new object with the same items.
CopyAliased(h, ref) == [to |-> ref, heap |-> h]

Copy(h, ref) == [to |-> "copy", heap |-> [h EXCEPT !["copy"] = h[ref]]]

\* "updates" in final_stream_modes
UserRequestedUpdates(items) == \E i \in 1..Len(items) : items[i] = "updates"

\* if not user_requested_updates: final_stream_modes.append("updates")
EnsureUpdates(h, ref) ==
    IF UserRequestedUpdates(h[ref]) THEN h ELSE [h EXCEPT ![ref] = Append(@, "updates")]

\* A run is created with a stream_mode; the caller's list is the object
\* "request". The lists an earlier run made are garbage.
ModeRequest ==
    /\ mode_pc \in {"request", "astream"}
    /\ \E sm \in ModeRequests :
           /\ requested' = sm
           /\ stream_mode' = IF sm.kind = "list" THEN ModeList("request") ELSE sm
           /\ mode_heap' = [mode_heap EXCEPT !["request"] = sm.items,
                                             !["normalized"] = NoModes,
                                             !["copy"] = NoModes]
    /\ final_stream_modes' = ""
    /\ mode_pc' = "normalize"
    /\ UNCHANGED notModes

\* Lines 245-248: a list is rebuilt by the comprehension, a string or None is
\* normalized in place of the local.
ModeNormalize ==
    /\ mode_pc = "normalize"
    /\ IF stream_mode.kind = "list"
       THEN /\ mode_heap' = [mode_heap EXCEPT !["normalized"] =
                                NormalizeList(mode_heap[stream_mode.v])]
            /\ stream_mode' = ModeList("normalized")
       ELSE /\ stream_mode' = IF stream_mode.kind = "str"
                              THEN ModeStr(normalize_mode(stream_mode.v))
                              ELSE stream_mode
            /\ UNCHANGED mode_heap
    /\ mode_pc' = "prepare"
    /\ UNCHANGED <<final_stream_modes, requested, notModes>>

\* Lines 282-293: the list for graph.astream is made and "updates" ensured.
ModePrepare ==
    /\ mode_pc = "prepare"
    /\ LET made == IF stream_mode.kind = "None"
                   THEN Copy(mode_heap, "DEFAULT_STREAM_MODES")
                   ELSE IF stream_mode.kind = "str"
                        THEN [to |-> "copy",
                              heap |-> [mode_heap EXCEPT !["copy"] = <<stream_mode.v>>]]
                        ELSE Copy(mode_heap, stream_mode.v)
       IN  /\ final_stream_modes' = made.to
           /\ mode_heap' = EnsureUpdates(made.heap, made.to)
    /\ mode_pc' = "astream"
    /\ UNCHANGED <<stream_mode, requested, notModes>>

ModeNext == ModeRequest \/ ModeNormalize \/ ModePrepare

ModeSpec == Init /\ [][ModeNext]_vars

\* The requested modes with every messages-tuple replaced by messages, or
\* ["values"] for None, or the one-element list for a string.
Replaced(items) ==
    [i \in 1..Len(items) |-> IF items[i] = "messages-tuple" THEN "messages" ELSE items[i]]
RequestedList(sm) ==
    IF sm.kind = "None" THEN <<"values">>
    ELSE IF sm.kind = "str" THEN Replaced(<<sm.v>>)
    ELSE Replaced(sm.items)

\* The number of times "updates" occurs in a list.
Updates(items) == Cardinality({ i \in 1..Len(items) : items[i] = "updates" })

(* C23. The list handed to graph.astream is the requested list followed by  *)
(* "updates" if and only if "updates" was not in it, so it always contains  *)
(* "updates"; the caller's own list and DEFAULT_STREAM_MODES hold what they *)
(* held before, whatever runs came before.                                  *)
C23_ModesNormalized ==
    /\ mode_heap["DEFAULT_STREAM_MODES"] = <<"values">>
    /\ requested.kind = "list" => mode_heap["request"] = requested.items
    /\ mode_pc = "astream" =>
          LET final == mode_heap[final_stream_modes]
              asked == RequestedList(requested)
          IN  /\ final = IF Updates(asked) > 0 THEN asked ELSE Append(asked, "updates")
              /\ Updates(final) >= 1
              /\ Updates(final) = IF Updates(asked) > 0 THEN Updates(asked) ELSE 1

\* A request for ["messages-tuple", "values"] was handed to graph.astream as
\* ["messages", "values", "updates"].
C23_Witness ==
    /\ mode_pc = "astream"
    /\ requested = ModeItems(<<"messages-tuple", "values">>)
    /\ mode_heap[final_stream_modes] = <<"messages", "values", "updates">>
    /\ mode_heap["request"] = <<"messages-tuple", "values">>

-----------------------------------------------------------------------------
\* The put_to_broker and store_event_from_raw calls of a run, in call order.
Forwarded(run_id) ==
    SelectSeq(calls[run_id],
              LAMBDA c : c.op \in {"put_to_broker", "store_event_from_raw"})

\* update_run_status(run_id, "running") committed before the call at position i.
RunningBefore(run_id, i) ==
    \E j \in 1..(i - 1) :
        calls[run_id][j].op = "update_run_status" /\ calls[run_id][j].s = "running"

\* The calls alternate put_to_broker, store_event_from_raw, and the n-th pair
\* carries the identifier and the payload of the n-th event pulled.
InOrder(run_id) ==
    LET fw == Forwarded(run_id)
    IN  \A k \in 1..Len(fw) :
            /\ fw[k].op = IF k % 2 = 1 THEN "put_to_broker" ELSE "store_event_from_raw"
            /\ (k + 1) \div 2 <= Len(stream[run_id])
            /\ fw[k].id = EventId(run_id, (k + 1) \div 2)
            /\ fw[k].v = stream[run_id][(k + 1) \div 2]

(* C24. Every event pulled is passed once to put_to_broker and              *)
(* once to store_event_from_raw, broker first, event n before event n+1:    *)
(* outside the loop body every pulled event has had both calls.             *)
C24_EveryEventForwarded ==
    \A r \in RunIds :
        /\ InOrder(r)
        /\ pc[r] \notin {"broker", "store"} => Len(Forwarded(r)) = 2 * Len(stream[r])

(* What holds of it: the calls are in order, only the event pulled last can *)
(* lack a call, none does when the next event is awaited or the stream has  *)
(* ended, and no call comes before the commit of status running.            *)
ForwardedInOrder ==
    \A r \in RunIds :
        LET fw == Forwarded(r)
        IN  /\ \A k \in 1..Len(fw) :
                   /\ fw[k].op = IF k % 2 = 1 THEN "put_to_broker" ELSE "store_event_from_raw"
                   /\ (k + 1) \div 2 <= Len(stream[r])
                   /\ fw[k].id = EventId(r, (k + 1) \div 2)
                   /\ fw[k].v = stream[r][(k + 1) \div 2]
            /\ Len(fw) >= 2 * (Len(stream[r]) - 1)
            /\ pc[r] \in {"stream", "fin_status", "fin_thread"} => Len(fw) = 2 * Len(stream[r])
            /\ \A i \in 1..Len(calls[r]) :
                   calls[r][i].op \in {"put_to_broker", "store_event_from_raw"}
                       => RunningBefore(r, i)

-----------------------------------------------------------------------------
(* C25. A run is entered in active_runs only by the step that creates its   *)
(* task, at whose end the task has not executed a step (no call, no await   *)
(* reached); once the task is finished and its entry removed, the entry     *)
(* never comes back.                                                        *)
C25_RegisteredBeforeFirstStep ==
    [][\A r \in RunIds :
          /\ (r \notin active_runs /\ r \in active_runs')
                => /\ pc[r] = "none"
                   /\ pc'[r] = "created"
                   /\ calls'[r] = <<>>
                   /\ run_db'[r].status \in {"pending", "streaming"}
          /\ (Finished(r) /\ r \notin active_runs) => r \notin active_runs']_vars

\* A run went from registration through its cleanup: finished, its entry
\* removed by the executor.
C25_Witness ==
    \E r \in RunIds :
        /\ Finished(r) /\ CleanedUp(r)
        /\ r \notin active_runs
        /\ run_db[r].status = "completed"

-----------------------------------------------------------------------------
(* Two runs of one thread: the endpoints do not look at the thread's status *)
(* before they create a run.                                                *)

BusyNext ==
    \E r \in RunIds :
        \/ CreateRun(r)
        \/ Executor(r, DbWorks, LiveEvents)

BusySpec == Init /\ [][BusyNext]_vars

\* The run is pending or running and its task has not finished.
NonTerminal(run_id) ==
    /\ run_db[run_id].status \in {"pending", "running"}
    /\ pc[run_id] \notin {"none", "done"}

(* C26. While a run of a thread is pending or running with its task not     *)
(* finished, the thread's status is busy.                                   *)
C26_BusyWhileRunning ==
    \A r \in RunIds : NonTerminal(r) => thread_status[ThreadOf(r)] = "busy"

-----------------------------------------------------------------------------
(* Run creations that are rejected, on a thread that may be deleted.        *)

RejectNext ==
    \/ \E r \in FirstRun :
           \/ CreateRun(r)
           \/ CreateRunRejected(r)
           \/ Executor(r, DbWorks, LiveEvents)
           \/ CancelPath(r, DbWorks)
    \/ \E t \in ThreadIds : DeleteChat(t) \/ DeleteSettled(t)

RejectSpec == Init /\ [][RejectNext]_vars

(* C27. A rejected run creation changes nothing: the thread's status is the *)
(* same as before the request, no run record was inserted and no task       *)
(* registered.                                                              *)
C27_RejectionChangesNothing ==
    [][rejections' # rejections =>
          /\ thread_status' = thread_status
          /\ run_db' = run_db
          /\ active_runs' = active_runs]_vars

-----------------------------------------------------------------------------
(* Run creations by the thread's owner and by another user.                 *)

OwnerNext ==
    \E r \in FirstRun :
        \/ CreateRun(r)
        \/ CreateRunByOther(r)
        \/ Executor(r, DbWorks, LiveEvents)

OwnerSpec == Init /\ [][OwnerNext]_vars

(* C28. Runs are created only on the caller's own threads: the user_id of a *)
(* run record is the user_id of its thread, and a step that inserts a run   *)
(* record for a user leaves the status of another user's thread unchanged.  *)
C28_OwnThreadsOnly ==
    [][\A r \in RunIds :
          run_user'[r] # run_user[r] =>
              /\ run_user'[r] = ThreadOwner(ThreadOf(r))
              /\ \A t \in ThreadIds :
                     ThreadOwner(t) # run_user'[r] => thread_status'[t] = thread_status[t]]_vars

====
